---- MODULE Spec2Model ----
(***************************************************************************)
(* Model of the EEZ Studio Docker build tool.                              *)
(*                                                                         *)
(*   SpecEngine      the build library (docker-build-lib, reproduced in    *)
(*                   scripts/README.md) as driven by the main-process IPC  *)
(*                   handlers: setupProject, buildProject, extractBuild,   *)
(*                   cleanBuild, cleanAll, one awaited external command    *)
(*                   per step, acting on the persistent volume and on the  *)
(*                   helper containers; plus abort-operation.              *)
(*   SpecSupervisor  the tracked child process of main.ts                  *)
(*                   (currentDockerProcess) and abort-operation's          *)
(*                   SIGTERM / grace timer / SIGKILL.                      *)
(*   SpecServer      the test server of main.ts: start-test-server and     *)
(*                   stop-test-server, the former suspended at its port    *)
(*                   allocation.                                           *)
(*   Spec            the renderer's workflow state machine (part_006):     *)
(*                   the async click handlers, one action per segment      *)
(*                   between two awaited IPC calls.                        *)
(***************************************************************************)
EXTENDS Integers, Sequences, FiniteSets, Bags, TLC

(***************************************************************************)
(* Bounds of the model.                                                    *)
(***************************************************************************)
MaxFonts == 1        \* longest font list of a descriptor
MaxContainers == 2   \* helper containers that can be alive at once
MaxProcs == 2        \* children spawned through run-docker-command
MaxTasks == 2        \* renderer handlers in flight at once
MaxServers == 4      \* http servers created by start-test-server
MaxStarts == 2       \* start-test-server handlers awaiting their port at once
PortSpan == 3        \* ports StartPort .. StartPort + PortSpan exist, none above
MaxDeclared == 2     \* longest `fonts` array of a descriptor file
MaxChunks == 2       \* 'data' events of one child
MaxRecent == 4       \* entries kept in the recent list (10 in the code); there
                     \* is one project file more than that

VARIABLES
  \* ---- build library / main process (SpecEngine)
  op,                   \* the library call in flight: its awaited command and locals
  lastOp,               \* the last finished library call, as returned to its caller
  volume,               \* the persistent docker volume mounted at /project
  containers,           \* ids of the helper containers that are running
  outputDir,            \* files in the local output directory
  abortReply,           \* what the last abort-operation call returned
  setupCompleted,       \* history: a Setup has succeeded since the volume was last emptied
  \* ---- process supervisor (SpecSupervisor)
  procs,                \* children spawned by run-docker-command
  currentDockerProcess, \* main.ts: let currentDockerProcess
  timers,               \* pending setTimeout callbacks of abort-operation
  graceExpired,         \* children still running when their grace timer fired
  \* ---- renderer (Spec)
  state,                \* part_006: let state = {...}
  elements,             \* the DOM properties the handlers read and write
  tasks,                \* bag of the async handlers suspended at an await
  testServer,           \* main.ts: let testServer (TRUE = a live listener)
  fileWatcher,          \* main.ts: let fileWatcher (the project file it watches)
  volStatus,            \* what checkBuildStatus would report for the volume
  \* ---- test server of the main process (SpecServer)
  servers,              \* the http.Server objects app.listen has returned
  testServerRef,        \* main.ts: let testServer, as the object it refers to
  starts,               \* start-test-server handlers at `await findAvailablePort`
  \* ---- descriptor to build command (SpecDescriptor)
  readResult,           \* what readProjectFile returned or threw, and for which file
  buildRun,             \* buildProject: its command line, exit code and outcome
  \* ---- output capture of run-docker-command (SpecOutput)
  runs,                 \* two invocations: what the child wrote, what was captured,
                        \* what was sent to the window, and the promise's value
  \* ---- recent projects (SpecRecent)
  recentProjects,       \* the list, most recent first
  lastAdded,            \* history: the path of the last add, whether that add pushed
                        \* the oldest entry out, and whether the path was removed since
  \* ---- the container runtime
  docker,               \* docker is installed and its daemon is running
  \* ---- port allocation (SpecPort)
  occupied,             \* ports that cannot be bound: another process holds them
  probe,                \* the port findAvailablePort is trying to listen on
  currentPort,          \* main.ts: let currentPort
  skipped,              \* history: ports whose probe failed in this allocation
  probeHeld,            \* the probe server is listening on `probe`
  listener,             \* the server start-test-server created: none, binding,
                        \* listening, or failed to bind
  snap,                 \* the descriptor on disk, state.projectInfo, state.setupComplete,
                        \* and history: what the last successful Setup applied and
                        \* what the last Build ran with
  hist                  \* history of the workflow, written only, never read by actions:
                        \* buildFailed = the last Build failed, needsSetup = a different
                        \* project was selected and no Setup has succeeded since,
                        \* lateChange = a UI source changed after the copy of the
                        \* Setup that is running

engineVars == <<op, lastOp, volume, containers, outputDir, abortReply, setupCompleted>>
supervisorVars == <<procs, currentDockerProcess, timers, graceExpired>>
rendererVars == <<state, elements, tasks, testServer, fileWatcher, volStatus, hist>>
serverVars == <<servers, testServerRef, starts>>
portVars == <<occupied, probe, probeHeld, currentPort, skipped, listener>>
\* what no action of the engine, supervisor, renderer or server changes
descriptorVars == <<readResult, buildRun>>
recentVars == <<recentProjects, lastAdded>>
libVars == <<portVars, descriptorVars, runs, recentVars, docker, snap>>
vars == <<op, lastOp, volume, containers, outputDir, abortReply, setupCompleted,
          procs, currentDockerProcess, timers, graceExpired,
          state, elements, tasks, testServer, fileWatcher, volStatus, hist,
          servers, testServerRef, starts, occupied, probe, currentPort, skipped, docker,
          readResult, buildRun, runs, recentProjects, lastAdded, probeHeld, listener, snap>>

\* what a step of the engine, of the renderer, of the supervisor leaves alone
notEngine == <<procs, currentDockerProcess, timers, graceExpired, state, elements, tasks, testServer, fileWatcher, volStatus, hist, serverVars, libVars>>
notRenderer == <<op, lastOp, volume, containers, outputDir, abortReply, setupCompleted,
                 procs, currentDockerProcess, timers, graceExpired, serverVars, libVars>>
notSupervisor == <<op, lastOp, volume, containers, outputDir, abortReply, setupCompleted, state, elements, tasks, testServer, fileWatcher, volStatus, hist, serverVars, libVars>>
notServer == <<op, lastOp, volume, containers, outputDir, abortReply, setupCompleted,
               procs, currentDockerProcess, timers, graceExpired, rendererVars, libVars>>
notLib == <<op, lastOp, volume, containers, outputDir, abortReply, setupCompleted,
            procs, currentDockerProcess, timers, graceExpired, rendererVars, serverVars,
            docker>>
notPort == <<notLib, descriptorVars, runs, recentVars, snap>>
notDescriptor == <<notLib, portVars, runs, recentVars, snap>>
notOutput == <<notLib, portVars, descriptorVars, recentVars, snap>>
notRecent == <<notLib, portVars, descriptorVars, runs, snap>>
notSnapshot == <<notLib, portVars, descriptorVars, runs, recentVars>>

NoProc == 0
NoContainer == 0

(***************************************************************************)
(* The build library.                                                      *)
(***************************************************************************)

\* ProjectInfo as setupProject reads it: uiDir (absent, a path that no longer
\* exists, or an existing directory) and the FreeType fonts; a font's
\* targetPath is font.lvglFreeTypeFilePath, undefined when the project file
\* omits it, and its local file may have been removed since the read.
FontKinds == {"ok", "no_target", "no_file"}
FontLists == UNION {[1..n -> FontKinds] : n \in 0..MaxFonts}

\* The files a local UI directory can hold; ui is what the directory at uiDir
\* holds when docker cp reads it.
UiFiles == {"screens.c", "styles.c"}
ProjectInfos == {i \in [uiDir : {"ok", "not_found", "missing"}, ui : SUBSET UiFiles,
                        fonts : FontLists] :
                   /\ i.uiDir = "ok" => i.ui # {}
                   /\ i.uiDir # "ok" => (i.ui = {} /\ i.fonts = <<>>)}

\* The library calls that take no ProjectInfo, or do not read it
NoProject == [uiDir |-> "ok", ui |-> {}, fonts |-> <<>>]

\* const files = ['index.html', 'index.js', 'index.wasm', 'index.data']
files == <<"index.html", "index.js", "index.wasm", "index.data">>
Mandatory == {"index.html", "index.js", "index.wasm"}

\* The volume: marker = /project/build.sh exists, srcDir = /project/src exists,
\* src = the files under /project/src, fontsTxt = /project/fonts.txt exists,
\* build = the files under /project/build/output
EmptyVolume == [marker |-> FALSE, srcDir |-> FALSE, src |-> {}, fontsTxt |-> FALSE, build |-> {}]

Idle == [kind |-> "none"]
NoResult == [kind |-> "none"]

\* A library call that has just been entered: nothing run, no container yet.
NewOp(kind, info) ==
  [kind |-> kind, pc |-> "start", info |-> info, containerId |-> NoContainer,
   alreadySetup |-> FALSE, fontIdx |-> 0, fileIdx |-> 0, error |-> "",
   ran |-> {}, failed |-> {}, copied |-> {}, abortSeen |-> FALSE, after |-> "none"]

\* runCommand / runCommandSilent: spawn cmd and await its close; the state in
\* which op.pc = cmd is the one in which that child is running.
runCommand(o, cmd) ==
  [o EXCEPT !.pc = cmd, !.ran = @ \cup {cmd},
            !.after = IF o.pc \in {"start", "build_image", "probe"} THEN @ ELSE "none"]

\* The awaited command has closed with result.success = ok.  op.failed is
\* history: the failed commands of this call, those of the mkdir steps and of
\* the manifest step left out.
Recorded == {"build_image", "create", "clone", "pull", "cp", "touch", "cp_font",
             "cp_out", "build", "clean_build", "clean_all"}
Closed(o, ok) == IF ok \/ o.pc \notin Recorded THEN o ELSE [o EXCEPT !.failed = @ \cup {o.pc}]

\* The library call goes on to await its next command.  `after` records, for
\* the properties, the successful clean that a setupProject directly follows,
\* until that setupProject has taken its clone or pull branch.
Continue(o) == /\ op' = IF op = Idle /\ o.kind = "setup"
                              /\ lastOp.kind \in {"cleanAll", "cleanBuild"}
                           THEN [o EXCEPT !.after = IF lastOp.success THEN lastOp.kind
                                                                      ELSE "none"]
                           ELSE o
               /\ lastOp' = IF op = Idle THEN NoResult ELSE lastOp

\* The library call returns (success) or throws (error); the IPC handler's
\* try/catch turns either into { success } for the caller.
Return(o, success, error) ==
  /\ op' = Idle
  /\ lastOp' = [kind |-> o.kind, success |-> success, error |-> error,
                failed |-> o.failed, abortSeen |-> o.abortSeen,
                alreadySetup |-> o.alreadySetup, ui |-> o.info.ui, copied |-> o.copied]

\* await runCommand('docker', ['stop', containerId]); throw new Error(error)
StopAndThrow(o, error) == Continue(runCommand([o EXCEPT !.error = error], "stop"))

\* test -f /project/build.sh in a run-and-remove container: result.success,
\* which is the exit code of docker-compose run; ran = the container ran the
\* test at all.
MarkerProbe(v, ran) == ran /\ v.marker

\* git clone --recursive ... . in /project, when it succeeds
VolumeAfterClone(v) == [v EXCEPT !.marker = TRUE]

\* rm -rf /project/build
VolumeAfterCleanBuild(v) == [v EXCEPT !.build = {}]

\* rm -rf /project/* /project/.*[!.]*
VolumeAfterCleanAll(v) == EmptyVolume

FreeContainerIds == (1..MaxContainers) \ containers

\* ---------------------------------------------------------------- setupProject

StartSetup(info) ==
  /\ op = Idle
  /\ Continue(runCommand(NewOp("setup", info), "build_image"))
  /\ UNCHANGED <<volume, containers, outputDir, abortReply, setupCompleted, notEngine>>

\* Step 1: docker-compose build
SetupImageBuilt(ok) ==
  /\ op.kind = "setup" /\ op.pc = "build_image"
  /\ IF ok THEN Continue(runCommand(op, "probe"))
           ELSE Return(Closed(op, ok), FALSE, "Failed to build Docker image")
  /\ UNCHANGED <<volume, containers, outputDir, abortReply, setupCompleted, notEngine>>

\* Step 2: the marker probe decides first-time (clone) or already set up (pull)
SetupProbed(ran) ==
  /\ op.kind = "setup" /\ op.pc = "probe"
  /\ LET o == [op EXCEPT !.alreadySetup = MarkerProbe(volume, ran)]
     IN IF ~o.alreadySetup THEN Continue(runCommand(o, "create"))
                           ELSE Continue(runCommand(o, "pull"))
  /\ UNCHANGED <<volume, containers, outputDir, abortReply, setupCompleted, notEngine>>

\* Step 3, first time: git clone --recursive ... . inside the helper container,
\* which git refuses in a directory that already holds the repository.  A
\* clone that fails may already have checked out the top-level repository.
SetupCloned(ok) ==
  /\ op.kind = "setup" /\ op.pc = "clone"
  /\ ok => ~volume.marker
  /\ IF ok THEN /\ volume' = VolumeAfterClone(volume)
                /\ Continue(runCommand(op, "rm_mkdir"))
           ELSE /\ volume' \in {volume, VolumeAfterClone(volume)}
                /\ StopAndThrow(Closed(op, ok), "Git clone failed")
  /\ UNCHANGED <<containers, outputDir, abortReply, setupCompleted, notEngine>>

SetupPulledMutant(ok) ==
  /\ op.kind = "setup" /\ op.pc = "pull"
  /\ IF ok THEN Continue(runCommand(op, "create"))
           ELSE Return(Closed(op, ok), FALSE, "Git pull failed")
  /\ UNCHANGED <<volume, containers, outputDir, abortReply, setupCompleted, notEngine>>

\* Step 3, already set up: git pull; a failure is only logged as a warning
SetupPulled(ok) ==
  /\ op.kind = "setup" /\ op.pc = "pull"
  /\ Continue(runCommand(Closed(op, ok), "create"))
  /\ UNCHANGED <<volume, containers, outputDir, abortReply, setupCompleted, notEngine>>

\* Step 4: rm -rf /project/src && mkdir -p /project/src (result not looked at),
\* then the two uiDir checks.  When the command fails the subtree is as it
\* was (the exec did not run) or removed and not recreated.
SetupSrcPrepared(ok) ==
  /\ op.kind = "setup" /\ op.pc = "rm_mkdir"
  /\ \/ ok /\ volume' = [volume EXCEPT !.srcDir = TRUE, !.src = {}]
     \/ ~ok /\ volume' = volume
     \/ ~ok /\ volume' = [volume EXCEPT !.srcDir = FALSE, !.src = {}]
  /\ LET o == Closed(op, ok)
     IN CASE o.info.uiDir = "missing" -> StopAndThrow(o, "UI directory path is missing")
          [] o.info.uiDir = "not_found" -> StopAndThrow(o, "UI directory not found")
          [] OTHER -> Continue(runCommand(o, "cp"))
  /\ UNCHANGED <<containers, outputDir, abortReply, setupCompleted, notEngine>>

\* docker cp <uiDir>/. <container>:/project/src/ adds the local files to what
\* /project/src holds, creating the directory when it is not there; a copy
\* that fails may have written some of them.
SetupCopied(ok) ==
  /\ op.kind = "setup" /\ op.pc = "cp"
  /\ IF ok THEN /\ volume' = [volume EXCEPT !.srcDir = TRUE, !.src = @ \cup op.info.ui]
                /\ Continue(runCommand(op, "touch"))
           ELSE /\ \E part \in (SUBSET op.info.ui) \ {op.info.ui} :
                     volume' = [volume EXCEPT !.srcDir = @ \/ part # {},
                                              !.src = @ \cup part]
                /\ StopAndThrow(Closed(op, ok), "Failed to copy build destination directory")
  /\ UNCHANGED <<containers, outputDir, abortReply, setupCompleted, notEngine>>

\* for (const font of projectInfo.fonts): the part of one iteration up to its
\* first await, or the manifest once the list is exhausted.  path.posix.dirname
\* of an undefined targetPath throws a TypeError out of setupProject.
FontLoop(o, i) ==
  IF i > Len(o.info.fonts)
  THEN Continue(runCommand(o, "manifest"))
  ELSE IF o.info.fonts[i] = "no_target"
       THEN Return(o, FALSE, "TypeError: path must be a string")
       ELSE Continue(runCommand([o EXCEPT !.fontIdx = i], "mkdir_font"))

\* find /project/src ... -exec touch (result not looked at)
SetupTouched(ok) ==
  /\ op.kind = "setup" /\ op.pc = "touch"
  /\ IF Len(op.info.fonts) > 0
     THEN Continue(runCommand(Closed(op, ok), "mkdir_fonts"))
     ELSE Continue(runCommand(Closed(op, ok), "stop"))
  /\ UNCHANGED <<volume, containers, outputDir, abortReply, setupCompleted, notEngine>>

\* mkdir -p /project/fonts (result not looked at), then the first font
SetupFontsDirMade(ok) ==
  /\ op.kind = "setup" /\ op.pc = "mkdir_fonts"
  /\ FontLoop(Closed(op, ok), 1)
  /\ UNCHANGED <<volume, containers, outputDir, abortReply, setupCompleted, notEngine>>

\* mkdir -p /project<targetDir> (result not looked at)
SetupFontDirMade(ok) ==
  /\ op.kind = "setup" /\ op.pc = "mkdir_font"
  /\ Continue(runCommand(Closed(op, ok), "cp_font"))
  /\ UNCHANGED <<volume, containers, outputDir, abortReply, setupCompleted, notEngine>>

\* docker cp <font.localPath> <container>:/project<targetDir>/<name>
SetupFontCopied(ok) ==
  /\ op.kind = "setup" /\ op.pc = "cp_font"
  /\ ok => op.info.fonts[op.fontIdx] = "ok"
  /\ IF ok THEN FontLoop(op, op.fontIdx + 1)
           ELSE StopAndThrow(Closed(op, ok), "Failed to copy font file")
  /\ UNCHANGED <<volume, containers, outputDir, abortReply, setupCompleted, notEngine>>

\* echo <manifest> | base64 -d > /project/fonts.txt (result not looked at)
SetupManifestWritten(ok) ==
  /\ op.kind = "setup" /\ op.pc = "manifest"
  /\ volume' = IF ok THEN [volume EXCEPT !.fontsTxt = TRUE] ELSE volume
  /\ Continue(runCommand(Closed(op, ok), "stop"))
  /\ UNCHANGED <<containers, outputDir, abortReply, setupCompleted, notEngine>>

\* createTempContainer: docker-compose run -d emscripten-build sleep infinity;
\* throws when the command fails, else the call site goes on with the handle:
\* setupProject to the clone (first time) or to step 4, extractBuild to the
\* first file.
ContainerCreated(ok) ==
  /\ op.kind \in {"setup", "extract"} /\ op.pc = "create"
  /\ ok => FreeContainerIds # {}
  /\ IF ok
     THEN LET id == CHOOSE i \in FreeContainerIds : \A j \in FreeContainerIds : i <= j
              o == [op EXCEPT !.containerId = id]
          IN /\ containers' = containers \cup {id}
             /\ CASE o.kind = "setup" /\ ~o.alreadySetup -> Continue(runCommand(o, "clone"))
                  [] o.kind = "setup" /\ o.alreadySetup -> Continue(runCommand(o, "rm_mkdir"))
                  [] OTHER -> Continue(runCommand([o EXCEPT !.fileIdx = 1], "cp_out"))
     ELSE /\ UNCHANGED containers
          /\ Return(Closed(op, ok), FALSE, "Failed to create temporary container")
  /\ UNCHANGED <<volume, outputDir, abortReply, setupCompleted, notEngine>>

\* docker stop <containerId> has closed: the last statement of setupProject and
\* extractBuild, or the stop in front of a throw.  docker stop of a running
\* container is taken to stop it.
Stopped ==
  /\ op.kind \in {"setup", "extract"} /\ op.pc = "stop"
  /\ containers' = containers \ {op.containerId}
  /\ Return(op, op.error = "", op.error)
  /\ setupCompleted' = (setupCompleted \/ (op.kind = "setup" /\ op.error = ""))
  /\ UNCHANGED <<volume, outputDir, abortReply, notEngine>>

\* ---------------------------------------------------------------- buildProject

StartBuild(info) ==
  /\ op = Idle
  /\ Continue(runCommand(NewOp("build", info), "build"))
  /\ UNCHANGED <<volume, containers, outputDir, abortReply, setupCompleted, notEngine>>

\* ./build.sh inside the volume; success is its exit code.  It can only
\* succeed where the script exists; it then leaves the three mandatory files
\* and, for some projects, index.data.
BuildDone(ok, withData) ==
  /\ op.kind = "build" /\ op.pc = "build"
  /\ ok => volume.marker
  /\ ~ok => ~withData
  /\ IF ok THEN /\ volume' = [volume EXCEPT !.build =
                                 Mandatory \cup (IF withData THEN {"index.data"} ELSE {})]
                /\ Return(op, TRUE, "")
           ELSE /\ UNCHANGED volume
                /\ Return(Closed(op, ok), FALSE, "Build failed")
  /\ UNCHANGED <<containers, outputDir, abortReply, setupCompleted, notEngine>>

\* ---------------------------------------------------------------- cleanBuild, cleanAll

StartCleanBuild ==
  /\ op = Idle
  /\ Continue(runCommand(NewOp("cleanBuild", NoProject), "clean_build"))
  /\ UNCHANGED <<volume, containers, outputDir, abortReply, setupCompleted, notEngine>>

CleanBuildDone(ok) ==
  /\ op.kind = "cleanBuild" /\ op.pc = "clean_build"
  /\ IF ok THEN /\ volume' = VolumeAfterCleanBuild(volume)
                /\ Return(op, TRUE, "")
           ELSE /\ UNCHANGED volume
                /\ Return(Closed(op, ok), FALSE, "Clean build failed")
  /\ UNCHANGED <<containers, outputDir, abortReply, setupCompleted, notEngine>>

StartCleanAll ==
  /\ op = Idle
  /\ Continue(runCommand(NewOp("cleanAll", NoProject), "clean_all"))
  /\ UNCHANGED <<volume, containers, outputDir, abortReply, setupCompleted, notEngine>>

\* A clean-all that fails may have emptied the volume all the same.
CleanAllDone(ok) ==
  /\ op.kind = "cleanAll" /\ op.pc = "clean_all"
  /\ IF ok THEN /\ volume' = VolumeAfterCleanAll(volume)
                /\ Return(op, TRUE, "")
           ELSE /\ volume' \in {volume, VolumeAfterCleanAll(volume)}
                /\ Return(Closed(op, ok), FALSE, "Clean all failed")
  /\ setupCompleted' = (setupCompleted /\ volume' # EmptyVolume)
  /\ UNCHANGED <<containers, outputDir, abortReply, notEngine>>

\* ---------------------------------------------------------------- extractBuild

\* Remove the output directory, recreate it, then createTempContainer.  A
\* removal that fails (a file of the directory is in use) throws out of the
\* library's extractBuild (fs.rmSync), while the extract-build handler of
\* main.ts catches it, logs a warning and goes on with the directory as it is.
StartExtract(removed, caught) ==
  /\ op = Idle
  /\ removed => ~caught
  /\ IF removed \/ caught
     THEN /\ outputDir' = IF removed THEN {} ELSE outputDir
          /\ Continue(runCommand(NewOp("extract", NoProject), "create"))
     ELSE /\ UNCHANGED outputDir
          /\ Return(NewOp("extract", NoProject), FALSE, "Failed to clean output directory")
  /\ UNCHANGED <<volume, containers, abortReply, setupCompleted, notEngine>>

ExtractCopiedMutant(ok) ==
  /\ op.kind = "extract" /\ op.pc = "cp_out"
  /\ LET file == files[op.fileIdx]
         o == [Closed(op, ok) EXCEPT !.copied = IF ok THEN @ \cup {file} ELSE @]
         next == IF op.fileIdx < Len(files)
                 THEN runCommand([o EXCEPT !.fileIdx = @ + 1], "cp_out")
                 ELSE runCommand(o, "stop")
     IN /\ ok => file \in volume.build
        /\ outputDir' = IF ok THEN outputDir \cup {file} ELSE outputDir
        /\ IF ~ok
           THEN StopAndThrow(o, "Failed to extract")
           ELSE Continue(next)
  /\ UNCHANGED <<volume, containers, abortReply, setupCompleted, notEngine>>

\* docker cp <container>:/project/build/<file> <destPath> for files[fileIdx]
ExtractCopied(ok) ==
  /\ op.kind = "extract" /\ op.pc = "cp_out"
  /\ LET file == files[op.fileIdx]
         o == [Closed(op, ok) EXCEPT !.copied = IF ok THEN @ \cup {file} ELSE @]
         next == IF op.fileIdx < Len(files)
                 THEN runCommand([o EXCEPT !.fileIdx = @ + 1], "cp_out")
                 ELSE runCommand(o, "stop")
     IN /\ ok => file \in volume.build
        /\ outputDir' = IF ok THEN outputDir \cup {file} ELSE outputDir
        /\ IF ~ok /\ file # "index.data"
           THEN StopAndThrow(o, "Failed to extract")
           ELSE Continue(next)
  /\ UNCHANGED <<volume, containers, abortReply, setupCompleted, notEngine>>

(***************************************************************************)
(* The process supervisor of main.ts.                                      *)
(***************************************************************************)

\* via = the helper that spawned the child
NewProc == [state |-> "unborn", killed |-> FALSE, sigterm |-> FALSE, sigkill |-> FALSE,
            via |-> "none"]

\* ChildProcess.kill(signal): delivered only while the child has not exited;
\* a delivered signal sets .killed.
kill(ps, p, signal) ==
  IF ps[p].state # "running" THEN ps
  ELSE [ps EXCEPT ![p].killed = TRUE,
                  ![p].sigterm = @ \/ signal = "SIGTERM",
                  ![p].sigkill = @ \/ signal = "SIGKILL"]

\* const dockerProcess = spawn(...); currentDockerProcess = dockerProcess
Track(via) ==
  /\ \E p \in 1..MaxProcs :
       /\ procs[p].state = "unborn"
       /\ \A q \in 1..(p - 1) : procs[q].state # "unborn"
       /\ procs' = [procs EXCEPT ![p].state = "running", ![p].via = via]
       /\ currentDockerProcess' = p
  /\ UNCHANGED <<timers, graceExpired, notSupervisor>>

\* ipcMain.handle('run-docker-command'): spawn and track the child
RunDockerCommand == Track("run-docker-command")

runDockerCommand == Track("runDockerCommand")

runDockerCommandString == Track("runDockerCommandString")

\* dockerProcess.on('close'): the child has exited, of itself or on a signal,
\* or its stdio has closed after a failed spawn.  The handlers of
\* run-docker-command and runDockerCommand clear the global, whichever child
\* it refers to; the one of runDockerCommandString does not.
ChildClose(p) ==
  /\ procs[p].state \in {"running", "failed"}
  /\ procs' = [procs EXCEPT ![p].state = "exited"]
  /\ currentDockerProcess' = IF procs[p].via = "runDockerCommandString"
                             THEN currentDockerProcess ELSE NoProc
  /\ UNCHANGED <<timers, graceExpired, notSupervisor>>

\* dockerProcess.on('error'): the child could not be spawned.  Only
\* runDockerCommand clears the global here.
ChildError(p) ==
  /\ procs[p].state = "running" /\ ~procs[p].killed
  /\ procs' = [procs EXCEPT ![p].state = "failed"]
  /\ currentDockerProcess' = IF procs[p].via = "runDockerCommand"
                             THEN NoProc ELSE currentDockerProcess
  /\ UNCHANGED <<timers, graceExpired, notSupervisor>>

\* ipcMain.handle('abort-operation').  The library's runCommand never
\* registers its child, so during a library call currentDockerProcess is null.
\* op.abortSeen only records that the call was made while a library call ran.
AbortOperation ==
  /\ IF currentDockerProcess # NoProc
     THEN /\ procs' = kill(procs, currentDockerProcess, "SIGTERM")
          /\ timers' = timers \cup {currentDockerProcess}
          /\ currentDockerProcess' = NoProc
          /\ abortReply' = "success"
     ELSE /\ abortReply' = "No operation running"
          /\ UNCHANGED <<procs, timers, currentDockerProcess>>
  /\ op' = IF op.kind # "none" THEN [op EXCEPT !.abortSeen = TRUE] ELSE op
  /\ UNCHANGED <<lastOp, volume, containers, outputDir, setupCompleted, graceExpired,
                 state, elements, tasks, testServer, fileWatcher, volStatus, hist, serverVars,
                 libVars>>

\* The setTimeout callback of abort-operation, 1000 ms later.  A timer is
\* named by the child its abort signalled, which the callback itself does not
\* know: it reads the global.
GraceTimerFires(t) ==
  /\ t \in timers
  /\ timers' = timers \ {t}
  /\ procs' = IF currentDockerProcess # NoProc /\ ~procs[currentDockerProcess].killed
              THEN kill(procs, currentDockerProcess, "SIGKILL")
              ELSE procs
  /\ graceExpired' = IF procs[t].state = "running" THEN graceExpired \cup {t} ELSE graceExpired
  /\ UNCHANGED <<currentDockerProcess, notSupervisor>>

(***************************************************************************)
(* The test server of the main process: start-test-server and              *)
(* stop-test-server under any interleaving of requests.  The handler of    *)
(* start-test-server is suspended once, at `await findAvailablePort`; what *)
(* follows the await runs when the port is known.                          *)
(***************************************************************************)

NoServer == 0

\* stopTestServer(): close the server testServer refers to, forget it
stopTestServer(ss, ref) ==
  IF ref = NoServer THEN ss
  ELSE [ss EXCEPT ![ref] = IF @ = "live" THEN "closed" ELSE @]

\* ipcMain.handle('start-test-server'), up to its await
StartTestServer ==
  /\ starts < MaxStarts
  /\ servers' = stopTestServer(servers, testServerRef)
  /\ testServerRef' = NoServer
  /\ starts' = starts + 1
  /\ UNCHANGED notServer

\* The port is known: testServer = app.listen(currentPort), return.  The
\* listener binds, or fails with EADDRINUSE after the handler has returned
\* when the probe of a second handler holds the port.
PortFound(bound) ==
  /\ starts > 0
  /\ ~bound => starts > 1
  /\ \E s \in 1..MaxServers :
       /\ servers[s] = "unborn"
       /\ \A r \in 1..(s - 1) : servers[r] # "unborn"
       /\ servers' = [servers EXCEPT ![s] = IF bound THEN "live" ELSE "failed"]
       /\ testServerRef' = s
  /\ starts' = starts - 1
  /\ UNCHANGED notServer

\* ipcMain.handle('stop-test-server')
StopTestServer ==
  /\ servers' = stopTestServer(servers, testServerRef)
  /\ testServerRef' = NoServer
  /\ UNCHANGED <<starts, notServer>>

(***************************************************************************)
(* Port allocation: findAvailablePort(3000) as start-test-server calls it, *)
(* one probe per step, while other processes bind and release ports.       *)
(***************************************************************************)

NoPort == 0
StartPort == 3000
Ports == StartPort..(StartPort + PortSpan)

\* start-test-server: stopTestServer() closes the server and forgets the
\* lease, then findAvailablePort(3000) creates its first probe
FindAvailablePort ==
  /\ probe = NoPort
  /\ probe' = StartPort
  /\ currentPort' = NoPort
  /\ listener' = "none"
  /\ skipped' = {}
  /\ UNCHANGED <<occupied, probeHeld, notPort>>

\* testServer.listen(startPort, ...) succeeded: the probe holds the port
ProbeListening ==
  /\ probe # NoPort /\ ~probeHeld /\ probe \notin occupied
  /\ probeHeld' = TRUE
  /\ UNCHANGED <<occupied, probe, currentPort, skipped, listener, notPort>>

\* app.listen(currentPort) has been called and the handler has returned
\* { success: true, port, url }; the bind itself is still to come
Returned(port) ==
  /\ currentPort' = port
  /\ listener' = "binding"

ProbeClosedMutant ==
  /\ probeHeld
  /\ Returned(probe)
  /\ UNCHANGED <<occupied, probe, probeHeld, skipped, notPort>>

\* testServer.close(() => resolve(port)): the probe is closed, then the port
\* is resolved and the handler goes on
ProbeClosed ==
  /\ probeHeld
  /\ probeHeld' = FALSE
  /\ probe' = NoPort
  /\ Returned(probe)
  /\ UNCHANGED <<occupied, skipped, notPort>>

ProbeErrorMutant ==
  /\ probe # NoPort /\ ~probeHeld /\ probe \in occupied
  /\ skipped' = skipped \cup {probe}
  /\ probe' = IF probe + 2 \in Ports THEN probe + 2 ELSE NoPort
  /\ UNCHANGED <<occupied, currentPort, probeHeld, listener, notPort>>

\* testServer.on('error'): resolve(findAvailablePort(startPort + 1)); above the
\* last port listen throws and the allocation ends without a port
ProbeError ==
  /\ probe # NoPort /\ ~probeHeld /\ probe \in occupied
  /\ skipped' = skipped \cup {probe}
  /\ probe' = IF probe + 1 \in Ports THEN probe + 1 ELSE NoPort
  /\ UNCHANGED <<occupied, currentPort, probeHeld, listener, notPort>>

\* The server of app.listen binds: it listens, or it emits 'error'
\* (EADDRINUSE), for which the handler has registered nothing; "collided"
\* is the failure against the probe of this allocation.
ServerBinds ==
  /\ listener = "binding"
  /\ listener' = IF probeHeld /\ probe = currentPort THEN "collided"
                 ELSE IF currentPort \in occupied THEN "failed"
                 ELSE "listening"
  /\ UNCHANGED <<occupied, probe, probeHeld, currentPort, skipped, notPort>>

\* another process binds a port that is free
Occupy(p) ==
  /\ p \notin occupied
  /\ ~(probeHeld /\ p = probe)
  /\ ~(listener = "listening" /\ p = currentPort)
  /\ occupied' = occupied \cup {p}
  /\ UNCHANGED <<probe, probeHeld, currentPort, skipped, listener, notPort>>

\* another process releases its port
Release(p) ==
  /\ p \in occupied
  /\ occupied' = occupied \ {p}
  /\ UNCHANGED <<probe, probeHeld, currentPort, skipped, listener, notPort>>

(***************************************************************************)
(* The renderer (part_006).  A handler is an async function: it runs to    *)
(* its next `await window.electronAPI...` in one step, and the rest of it  *)
(* runs when the reply arrives.  Each operator below is one such segment:  *)
(* it takes state and elements as the segment finds them and yields them   *)
(* as it leaves them, with the await the handler is then suspended at.     *)
(***************************************************************************)

Projects == {"a.eez-project", "b.eez-project"}
UiFile == "src/ui/screens.c"
NoPath == ""
NoInfo == [projectPath |-> NoPath]
NoStatus == [setupComplete |-> FALSE, buildComplete |-> FALSE]

\* A handler suspended in function fn at the await of the IPC call pc (for
\* pc = "stopTest": at `await stopTest()`), with the locals of loadProject;
\* reload = this loadProject was called by the file-changed listener;
\* live = history: the test server was live when loadProject was called for
\* a different project.
Task(fn, pc) ==
  [fn |-> fn, pc |-> pc, path |-> NoPath, isDifferentProject |-> FALSE, result |-> NoStatus,
   reload |-> FALSE, live |-> FALSE]
Done == Task("none", "none")

Seg(st, el, next) == [state |-> st, elements |-> el, next |-> next]

setStatus(el, elementId, status) == [el EXCEPT !.status[elementId] = status]

AllDisabled ==
  [projectPath |-> TRUE, btnSetup |-> TRUE, btnBuild |-> TRUE, btnRunRebuild |-> TRUE,
   btnTest |-> TRUE, btnRunAll |-> TRUE]
AllPending == [setupStatus |-> "pending", buildStatus |-> "pending", testStatus |-> "pending"]

\* elements.disabled.projectPath stands for the three project selectors, which
\* updateUI always sets together.
updateUI(st, el) ==
  IF st.operationRunning \/ st.testRunning
  THEN [el EXCEPT !.disabled = AllDisabled]
  ELSE LET e == [el EXCEPT !.disabled =
                   [projectPath |-> FALSE,
                    btnSetup |-> (st.projectInfo = NoInfo),
                    btnBuild |-> ~st.setupComplete,
                    btnRunRebuild |-> ~st.setupComplete,
                    btnTest |-> (~st.buildComplete \/ st.testRunning),
                    btnRunAll |-> (st.projectInfo = NoInfo)]]
       IN IF st.projectInfo = NoInfo THEN [e EXCEPT !.status = AllPending] ELSE e

\* stopTest, after its await
stopTest(st, el) ==
  LET st1 == [st EXCEPT !.testRunning = FALSE]
      el1 == [setStatus(el, "testStatus", "pending") EXCEPT !.display.btnStopTest = FALSE]
  IN [state |-> st1, elements |-> updateUI(st1, el1)]

\* ---------------------------------------------------------------- runSetup

runSetupReRead(st, el) ==
  Seg(st, el, [Task("runSetup", "readProjectFile") EXCEPT !.path = st.projectPath])

runSetup(st, el) ==
  IF st.projectInfo = NoInfo THEN Seg(st, el, Done)
  ELSE IF st.testRunning THEN Seg(st, el, Task("runSetup", "stopTest"))
  ELSE runSetupReRead(st, el)

runSetupStart(st, el, success, info) ==
  IF ~success THEN Seg(st, el, Done)
  ELSE LET st1 == [st EXCEPT !.projectInfo = info, !.operationRunning = TRUE]
           el1 == setStatus([el EXCEPT !.disabled.btnSetup = TRUE], "setupStatus", "in-progress")
       IN Seg(st1, updateUI(st1, el1), Task("runSetup", "setupProject"))

runSetupDone(st, el, success) ==
  LET st1 == IF success
             THEN [st EXCEPT !.setupComplete = TRUE, !.buildComplete = FALSE,
                             !.testRunning = FALSE, !.fileChangedSinceSetup = FALSE,
                             !.operationRunning = FALSE]
             ELSE [st EXCEPT !.setupComplete = FALSE, !.operationRunning = FALSE]
      el1 == IF success
             THEN [el EXCEPT !.display.fileChangeNotification = FALSE,
                             !.status = [AllPending EXCEPT !.setupStatus = "completed"]]
             ELSE setStatus(el, "setupStatus", "error")
  IN Seg(st1, updateUI(st1, el1), Done)

\* ---------------------------------------------------------------- runBuild

runBuildStart(st, el) ==
  LET st1 == [st EXCEPT !.operationRunning = TRUE]
      el1 == setStatus([el EXCEPT !.disabled.btnBuild = TRUE], "buildStatus", "in-progress")
  IN Seg(st1, updateUI(st1, el1), Task("runBuild", "buildProject"))

runBuild(st, el) ==
  IF st.projectInfo = NoInfo \/ ~st.setupComplete THEN Seg(st, el, Done)
  ELSE IF st.testRunning THEN Seg(st, el, Task("runBuild", "stopTest"))
  ELSE runBuildStart(st, el)

runBuildDone(st, el, success) ==
  LET st1 == IF success
             THEN [st EXCEPT !.buildComplete = TRUE, !.testRunning = FALSE,
                             !.operationRunning = FALSE]
             ELSE [st EXCEPT !.buildComplete = FALSE, !.operationRunning = FALSE]
      el1 == IF success
             THEN setStatus(setStatus(el, "buildStatus", "completed"), "testStatus", "pending")
             ELSE setStatus(el, "buildStatus", "error")
  IN Seg(st1, updateUI(st1, el1), Done)

\* ---------------------------------------------------------------- runRebuild

runRebuildStart(st, el) ==
  LET st1 == [st EXCEPT !.operationRunning = TRUE]
      el1 == setStatus([el EXCEPT !.disabled.btnRunRebuild = TRUE], "buildStatus", "in-progress")
  IN Seg(st1, updateUI(st1, el1), Task("runRebuild", "cleanBuild"))

runRebuild(st, el) ==
  IF st.projectInfo = NoInfo \/ ~st.setupComplete THEN Seg(st, el, Done)
  ELSE IF st.testRunning THEN Seg(st, el, Task("runRebuild", "stopTest"))
  ELSE runRebuildStart(st, el)

\* after cleanBuild: give up, or `await runBuild()`, after which nothing is left
runRebuildCleaned(st, el, success) ==
  IF success THEN runBuild(st, el)
  ELSE LET st1 == [st EXCEPT !.buildComplete = FALSE, !.operationRunning = FALSE]
           el1 == setStatus([el EXCEPT !.disabled.btnRunRebuild = FALSE], "buildStatus", "error")
       IN Seg(st1, updateUI(st1, el1), Done)

\* ---------------------------------------------------------------- runAll

runAllStart(st, el) ==
  LET st1 == [st EXCEPT !.operationRunning = TRUE]
      el1 == updateUI(st1, [el EXCEPT !.disabled.btnRunAll = TRUE])
      el2 == setStatus([el1 EXCEPT !.disabled.btnSetup = TRUE], "setupStatus", "in-progress")
  IN Seg(st1, el2, Task("runAll", "setupProject"))

runAll(st, el) ==
  IF st.projectInfo = NoInfo THEN Seg(st, el, Done)
  ELSE IF st.testRunning THEN Seg(st, el, Task("runAll", "stopTest"))
  ELSE runAllStart(st, el)

\* a step of Run All has failed: its badge, operationRunning = false, updateUI
runAllAborted(st, el, elementId) ==
  LET st1 == [st EXCEPT !.operationRunning = FALSE]
  IN Seg(st1, updateUI(st1, setStatus(el, elementId, "error")), Done)

runAllSetupDone(st, el, success) ==
  IF ~success THEN runAllAborted([st EXCEPT !.setupComplete = FALSE], el, "setupStatus")
  ELSE LET st1 == [st EXCEPT !.setupComplete = TRUE, !.fileChangedSinceSetup = FALSE]
           el1 == setStatus([el EXCEPT !.display.fileChangeNotification = FALSE],
                            "setupStatus", "completed")
           el2 == setStatus([el1 EXCEPT !.disabled.btnBuild = TRUE], "buildStatus", "in-progress")
       IN Seg(st1, el2, Task("runAll", "buildProject"))

runAllBuildDone(st, el, success) ==
  IF ~success THEN runAllAborted([st EXCEPT !.buildComplete = FALSE], el, "buildStatus")
  ELSE LET st1 == [st EXCEPT !.buildComplete = TRUE]
           el1 == setStatus(el, "buildStatus", "completed")
           el2 == setStatus([el1 EXCEPT !.disabled.btnTest = TRUE], "testStatus", "in-progress")
       IN Seg(st1, el2, Task("runAll", "extractBuild"))

runAllExtractDone(st, el, success) ==
  IF ~success THEN runAllAborted(st, el, "testStatus")
  ELSE Seg(st, setStatus(el, "testStatus", "in-progress"), Task("runAll", "startTestServer"))

runAllServerDone(st, el, success) ==
  IF ~success THEN runAllAborted(st, el, "testStatus")
  ELSE LET st1 == [st EXCEPT !.testRunning = TRUE, !.operationRunning = FALSE]
           el1 == [setStatus(el, "testStatus", "running") EXCEPT !.display.btnStopTest = TRUE]
       IN Seg(st1, updateUI(st1, el1), Done)

\* ---------------------------------------------------------------- runTest

runTest(st, el) ==
  IF st.projectInfo = NoInfo \/ ~st.buildComplete THEN Seg(st, el, Done)
  ELSE LET st1 == [st EXCEPT !.operationRunning = TRUE]
           el1 == setStatus([el EXCEPT !.disabled.btnTest = TRUE], "testStatus", "in-progress")
       IN Seg(st1, updateUI(st1, el1), Task("runTest", "extractBuild"))

runTestExtractDone(st, el, success) ==
  IF success
  THEN Seg(st, setStatus(el, "testStatus", "in-progress"), Task("runTest", "startTestServer"))
  ELSE LET st1 == [st EXCEPT !.operationRunning = FALSE]
           el1 == setStatus([el EXCEPT !.disabled.btnTest = FALSE], "testStatus", "error")
       IN Seg(st1, updateUI(st1, el1), Done)

runTestServerDone(st, el, success) ==
  LET st1 == [st EXCEPT !.testRunning = (success \/ @), !.operationRunning = FALSE]
      el1 == IF success
             THEN [setStatus(el, "testStatus", "completed") EXCEPT !.display.btnStopTest = TRUE]
             ELSE setStatus(el, "testStatus", "error")
  IN Seg(st1, updateUI(st1, el1), Done)

\* ---------------------------------------------------------------- the notification

\* btnRebuild's click listener, after its stopTest
btnRebuildRunAll(st, el) ==
  runAll([st EXCEPT !.fileChangedSinceSetup = FALSE],
         [el EXCEPT !.display.fileChangeNotification = FALSE])

btnRebuild(st, el) ==
  IF st.testRunning THEN Seg(st, el, Task("btnRebuild", "stopTest"))
  ELSE btnRebuildRunAll(st, el)

\* ---------------------------------------------------------------- loadProject

loadProject(st, el, projectPath) ==
  Seg([st EXCEPT !.projectPath = projectPath], el,
      [Task("loadProject", "readProjectFile") EXCEPT
         !.path = projectPath,
         !.isDifferentProject = (st.projectPath # NoPath /\ st.projectPath # projectPath),
         !.live = (testServer /\ st.projectPath # NoPath /\ st.projectPath # projectPath)])

loadProjectRead(st, el, t, success, result) ==
  IF success
  THEN Seg([st EXCEPT !.projectInfo = [projectPath |-> t.path]], el,
           [t EXCEPT !.pc = "addToRecentProjects", !.result = result])
  ELSE LET st1 == [st EXCEPT !.projectInfo = NoInfo]
       IN Seg(st1, updateUI(st1, el), Done)

\* a different project: reset the workflow
loadProjectReset(st, el) ==
  LET st1 == [st EXCEPT !.setupComplete = FALSE, !.buildComplete = FALSE,
                        !.testRunning = FALSE, !.fileChangedSinceSetup = FALSE]
      el1 == [el EXCEPT !.display.fileChangeNotification = FALSE, !.status = AllPending]
  IN Seg(st1, updateUI(st1, el1), Done)

\* the first or the same project: restore the workflow from the build status
loadProjectRestore(st, el, result) ==
  LET st1 == [st EXCEPT !.setupComplete = result.setupComplete,
                        !.buildComplete = result.buildComplete,
                        !.testRunning = FALSE, !.fileChangedSinceSetup = FALSE]
      el1 == [el EXCEPT !.display.fileChangeNotification = FALSE]
      el2 == IF st1.setupComplete THEN setStatus(el1, "setupStatus", "completed") ELSE el1
      el3 == IF st1.buildComplete THEN setStatus(el2, "buildStatus", "completed") ELSE el2
  IN Seg(st1, updateUI(st1, el3), Done)

\* after addToRecentProjects and loadRecentProjects
loadProjectLoaded(st, el, t) ==
  IF t.isDifferentProject
  THEN IF st.testRunning THEN Seg(st, el, [t EXCEPT !.pc = "stopTest"])
       ELSE loadProjectReset(st, el)
  ELSE loadProjectRestore(st, el, t.result)

\* ---------------------------------------------------------------- onFileChanged

onFileChangedMutant(st, el, path) ==
  IF path = st.projectPath
  THEN LET load == loadProject(st, el, st.projectPath)
           seg == [load EXCEPT !.next.reload = TRUE]
       IN IF st.setupComplete
          THEN Seg([seg.state EXCEPT !.fileChangedSinceSetup = TRUE],
                   [seg.elements EXCEPT !.display.fileChangeNotification = TRUE], seg.next)
          ELSE seg
  ELSE IF ~st.fileChangedSinceSetup
       THEN Seg([st EXCEPT !.fileChangedSinceSetup = TRUE],
                [el EXCEPT !.display.fileChangeNotification = TRUE], Done)
       ELSE Seg(st, el, Done)

onFileChanged(st, el, path) ==
  IF path = st.projectPath
  THEN LET load == loadProject(st, el, st.projectPath)
           seg == [load EXCEPT !.next.reload = TRUE]
       IN IF st.setupComplete
          THEN Seg([seg.state EXCEPT !.fileChangedSinceSetup = TRUE],
                   [seg.elements EXCEPT !.display.fileChangeNotification = TRUE], seg.next)
          ELSE seg
  ELSE IF st.setupComplete /\ ~st.fileChangedSinceSetup
       THEN Seg([st EXCEPT !.fileChangedSinceSetup = TRUE],
                [el EXCEPT !.display.fileChangeNotification = TRUE], Done)
       ELSE Seg(st, el, Done)

\* ---------------------------------------------------------------- events

Room == BagCardinality(tasks) < MaxTasks

\* An event listener has run its first segment.
Spawn(seg) ==
  /\ seg.next # Done => Room
  /\ state' = seg.state
  /\ elements' = seg.elements
  /\ tasks' = IF seg.next = Done THEN tasks ELSE tasks (+) SetToBag({seg.next})

\* The reply task t awaited has arrived and its handler has run its next segment.
Resume(t, seg) ==
  /\ state' = seg.state
  /\ elements' = seg.elements
  /\ tasks' = IF seg.next = Done THEN tasks (-) SetToBag({t})
              ELSE (tasks (-) SetToBag({t})) (+) SetToBag({seg.next})

Awaiting(t, pc) == t \in BagToSet(tasks) /\ t.pc = pc

\* a project chosen in the dialog, the combobox or the recent list, or pasted
SelectProject(path) ==
  /\ ~elements.disabled.projectPath
  /\ Spawn(loadProject(state, elements, path))
  /\ hist' = [hist EXCEPT !.needsSetup = @ \/ (state.projectPath \notin {NoPath, path})]
  /\ UNCHANGED <<testServer, fileWatcher, volStatus, notRenderer>>

\* 'file-changed' from the watcher of the main process
\* A UI source saved while a setup-project call is running is saved before
\* or after that call copies the sources; the history keeps the second case.
FileChanged(path) ==
  /\ fileWatcher # NoPath
  /\ path \in {fileWatcher, UiFile}
  /\ Spawn(onFileChanged(state, elements, path))
  /\ hist' \in {hist} \cup
                (IF path = UiFile /\ \E t \in BagToSet(tasks) : t.pc = "setupProject"
                 THEN {[hist EXCEPT !.lateChange = TRUE]} ELSE {})
  /\ UNCHANGED <<testServer, fileWatcher, volStatus, notRenderer>>

ClickSetup ==
  /\ ~elements.disabled.btnSetup
  /\ Spawn(runSetup(state, elements))
  /\ UNCHANGED <<testServer, fileWatcher, volStatus, hist, notRenderer>>

ClickBuild ==
  /\ ~elements.disabled.btnBuild
  /\ Spawn(runBuild(state, elements))
  /\ UNCHANGED <<testServer, fileWatcher, volStatus, hist, notRenderer>>

ClickRunRebuild ==
  /\ ~elements.disabled.btnRunRebuild
  /\ Spawn(runRebuild(state, elements))
  /\ UNCHANGED <<testServer, fileWatcher, volStatus, hist, notRenderer>>

\* btnTest is hidden while btnStopTest is shown
ClickTest ==
  /\ ~elements.disabled.btnTest /\ ~elements.display.btnStopTest
  /\ Spawn(runTest(state, elements))
  /\ UNCHANGED <<testServer, fileWatcher, volStatus, hist, notRenderer>>

ClickStopTest ==
  /\ elements.display.btnStopTest
  /\ Spawn(Seg(state, elements, Task("stopTest", "stopTest")))
  /\ UNCHANGED <<testServer, fileWatcher, volStatus, hist, notRenderer>>

ClickRunAll ==
  /\ ~elements.disabled.btnRunAll
  /\ Spawn(runAll(state, elements))
  /\ UNCHANGED <<testServer, fileWatcher, volStatus, hist, notRenderer>>

\* the Rebuild button of the file-change notification
ClickRebuild ==
  /\ elements.display.fileChangeNotification
  /\ Spawn(btnRebuild(state, elements))
  /\ UNCHANGED <<testServer, fileWatcher, volStatus, hist, notRenderer>>

ClickDismiss ==
  /\ elements.display.fileChangeNotification
  /\ Spawn(Seg([state EXCEPT !.fileChangedSinceSetup = FALSE],
               [elements EXCEPT !.display.fileChangeNotification = FALSE], Done))
  /\ UNCHANGED <<testServer, fileWatcher, volStatus, hist, notRenderer>>

\* ---------------------------------------------------------------- IPC replies

\* stop-test-server: the listener is closed; stopTest goes on, then its caller
StopTestServerReply(t) ==
  /\ Awaiting(t, "stopTest")
  /\ testServer' = FALSE
  /\ LET s == stopTest(state, elements)
     IN Resume(t, CASE t.fn = "runSetup" -> runSetupReRead(s.state, s.elements)
                    [] t.fn = "runBuild" -> runBuildStart(s.state, s.elements)
                    [] t.fn = "runRebuild" -> runRebuildStart(s.state, s.elements)
                    [] t.fn = "runAll" -> runAllStart(s.state, s.elements)
                    [] t.fn = "btnRebuild" -> btnRebuildRunAll(s.state, s.elements)
                    [] t.fn = "loadProject" -> loadProjectReset(s.state, s.elements)
                    [] OTHER -> Seg(s.state, s.elements, Done))
  /\ UNCHANGED <<fileWatcher, volStatus, hist, notRenderer>>

\* read-project-file: the descriptor with checkBuildStatus of the volume; a
\* successful read points the file watcher at the project
ReadProjectFileReply(t, success) ==
  /\ Awaiting(t, "readProjectFile")
  /\ fileWatcher' = IF success THEN t.path ELSE fileWatcher
  /\ Resume(t, IF t.fn = "runSetup"
               THEN runSetupStart(state, elements, success, [projectPath |-> t.path])
               ELSE loadProjectRead(state, elements, t, success, volStatus))
  /\ UNCHANGED <<testServer, volStatus, hist, notRenderer>>

\* add-to-recent-projects, then get-recent-projects
AddToRecentProjectsReply(t) ==
  /\ Awaiting(t, "addToRecentProjects")
  /\ Resume(t, loadProjectLoaded(state, elements, t))
  /\ UNCHANGED <<testServer, fileWatcher, volStatus, hist, notRenderer>>

\* setup-project: a Setup that succeeds leaves the cloned repository in the
\* volume, one that fails may have
SetupProjectReply(t, success) ==
  /\ Awaiting(t, "setupProject")
  /\ success => docker
  /\ volStatus' \in {[volStatus EXCEPT !.setupComplete = TRUE]} \cup
                    (IF success THEN {} ELSE {volStatus})
  /\ Resume(t, IF t.fn = "runSetup" THEN runSetupDone(state, elements, success)
                                    ELSE runAllSetupDone(state, elements, success))
  /\ hist' = [hist EXCEPT !.needsSetup = @ /\ ~success, !.lateChange = FALSE]
  /\ UNCHANGED <<testServer, fileWatcher, notRenderer>>

\* build-project: succeeds only on a cloned repository, and then leaves
\* index.wasm
BuildProjectReply(t, success) ==
  /\ Awaiting(t, "buildProject")
  /\ success => (docker /\ volStatus.setupComplete)
  /\ volStatus' = IF success THEN [volStatus EXCEPT !.buildComplete = TRUE] ELSE volStatus
  /\ hist' = [hist EXCEPT !.buildFailed = ~success]
  /\ Resume(t, IF t.fn = "runBuild" THEN runBuildDone(state, elements, success)
                                    ELSE runAllBuildDone(state, elements, success))
  /\ UNCHANGED <<testServer, fileWatcher, notRenderer>>

\* clean-build: rm -rf /project/build
CleanBuildReply(t, success) ==
  /\ Awaiting(t, "cleanBuild")
  /\ success => docker
  /\ volStatus' = IF success THEN [volStatus EXCEPT !.buildComplete = FALSE] ELSE volStatus
  /\ Resume(t, runRebuildCleaned(state, elements, success))
  /\ UNCHANGED <<testServer, fileWatcher, hist, notRenderer>>

\* extract-build: succeeds only if the volume holds the build output
ExtractBuildReply(t, success) ==
  /\ Awaiting(t, "extractBuild")
  /\ success => (docker /\ volStatus.buildComplete)
  /\ Resume(t, IF t.fn = "runTest" THEN runTestExtractDone(state, elements, success)
                                   ELSE runAllExtractDone(state, elements, success))
  /\ UNCHANGED <<testServer, fileWatcher, volStatus, hist, notRenderer>>

\* start-test-server: stops the listener there is, then starts one
StartTestServerReply(t, success) ==
  /\ Awaiting(t, "startTestServer")
  /\ testServer' = success
  /\ Resume(t, IF t.fn = "runTest" THEN runTestServerDone(state, elements, success)
                                   ELSE runAllServerDone(state, elements, success))
  /\ UNCHANGED <<fileWatcher, volStatus, hist, notRenderer>>

(***************************************************************************)
(* Initial state and specifications.                                       *)
(***************************************************************************)

InitEngine ==
  /\ op = Idle
  /\ lastOp = NoResult
  /\ volume = EmptyVolume
  /\ containers = {}
  /\ outputDir = {}
  /\ abortReply = "none"
  /\ setupCompleted = FALSE

InitSupervisor ==
  /\ procs = [p \in 1..MaxProcs |-> NewProc]
  /\ currentDockerProcess = NoProc
  /\ timers = {}
  /\ graceExpired = {}

InitRenderer ==
  /\ state = [projectPath |-> NoPath, projectInfo |-> NoInfo, setupComplete |-> FALSE,
              buildComplete |-> FALSE, testRunning |-> FALSE, operationRunning |-> FALSE,
              fileChangedSinceSetup |-> FALSE]
  /\ elements = updateUI(state, [disabled |-> AllDisabled,
                                 display |-> [btnStopTest |-> FALSE,
                                              fileChangeNotification |-> FALSE],
                                 status |-> AllPending])
  /\ tasks = EmptyBag
  /\ testServer = FALSE
  /\ fileWatcher = NoPath
  /\ volStatus = NoStatus
  /\ hist = [buildFailed |-> FALSE, needsSetup |-> FALSE, lateChange |-> FALSE]

InitServer ==
  /\ servers = [s \in 1..MaxServers |-> "unborn"]
  /\ testServerRef = NoServer
  /\ starts = 0

(***************************************************************************)
(* From the descriptor file to the build command.                          *)
(***************************************************************************)

Missing == "undefined"
Supported == {"8.4.0", "9.2.2", "9.3.0", "9.4.0"}
versionMap == [v \in {"8.3", "8.3.0", "9.0", "9.0.0"} |->
                 IF v \in {"8.3", "8.3.0"} THEN "8.4.0" ELSE "9.2.2"]
DefaultWidth == 800
DefaultHeight == 480

\* the .eez-project files: settings.general, whether the destination folder
\* exists, and the fonts array (FreeType flag, whether the file is there)
LvglVersions == Supported \cup DOMAIN versionMap \cup {"8.2.0", "10.0.0", Missing}
DeclaredFonts == [lvglUseFreeType : BOOLEAN, exists : BOOLEAN,
                  lvglFreeTypeFilePath : {"/fonts/a.ttf"}]
DeclaredLists == UNION {[1..n -> DeclaredFonts] : n \in 0..MaxDeclared}
Descriptors == [lvglVersion : LvglVersions, displayWidth : {0, 320},
                displayHeight : {0, 240}, uiDirExists : BOOLEAN,
                fonts : DeclaredLists]

RECURSIVE parseFonts(_)
parseFonts(fs) ==
  IF fs = <<>> THEN <<>>
  ELSE LET font == Head(fs)
       IN IF font.lvglUseFreeType /\ font.exists
          THEN <<font.lvglFreeTypeFilePath>> \o parseFonts(Tail(fs))
          ELSE parseFonts(Tail(fs))

NoProjectInfo == [lvglVersion |-> Missing, displayWidth |-> 0, displayHeight |-> 0, fonts |-> <<>>]

\* readProjectFile: the ProjectInfo, or the message of the Error thrown
readProjectFile(project) ==
  LET lvglVersion == IF project.lvglVersion \in DOMAIN versionMap
                     THEN versionMap[project.lvglVersion]
                     ELSE project.lvglVersion
  IN IF project.lvglVersion = Missing
     THEN [ok |-> FALSE, error |-> "LVGL version not specified in project settings",
           info |-> NoProjectInfo]
     ELSE IF ~project.uiDirExists
     THEN [ok |-> FALSE, error |-> "Build destination directory not found", info |-> NoProjectInfo]
     ELSE [ok |-> TRUE, error |-> "",
           info |-> [lvglVersion |-> lvglVersion,
                     displayWidth |-> IF project.displayWidth = 0 THEN DefaultWidth
                                      ELSE project.displayWidth,
                     displayHeight |-> IF project.displayHeight = 0 THEN DefaultHeight
                                       ELSE project.displayHeight,
                     fonts |-> parseFonts(project.fonts)]]

\* the arguments of ./build.sh, in order, as name and value
buildCommandMutant(projectInfo) ==
  <<<<"--lvgl", projectInfo.lvglVersion>>,
    <<"--display-width", projectInfo.displayWidth>>,
    <<"--display-height", projectInfo.displayHeight>>>>
  \o (IF Len(projectInfo.fonts) > 1 THEN <<<<"--fonts", "/project/fonts.txt">>>> ELSE <<>>)

buildCommand(projectInfo) ==
  <<<<"--lvgl", projectInfo.lvglVersion>>,
    <<"--display-width", projectInfo.displayWidth>>,
    <<"--display-height", projectInfo.displayHeight>>>>
  \o (IF Len(projectInfo.fonts) > 0 THEN <<<<"--fonts", "/project/fonts.txt">>>> ELSE <<>>)

NoCode == -1
ExitCodes == {0, 1, 137}
NotBuilding == [pc |-> "idle", command |-> <<>>, code |-> NoCode, success |-> FALSE]

\* One run of the command-line tool: main() reads the descriptor named on
\* its command line and exits with status 1 if that throws
ReadProjectFile(project) ==
  /\ buildRun.pc = "start"
  /\ readResult' = readProjectFile(project) @@ [from |-> project]
  /\ buildRun' = [NotBuilding EXCEPT !.pc = IF readResult'.ok THEN "idle" ELSE "exit"]
  /\ UNCHANGED notDescriptor

BuildProject ==
  /\ readResult.ok /\ buildRun.pc = "idle"
  /\ buildRun' = [NotBuilding EXCEPT !.pc = "running",
                                     !.command = buildCommand(readResult.info)]
  /\ UNCHANGED <<readResult, notDescriptor>>

\* proc.on('close'): success is code === 0
BuildClosed(code) ==
  /\ buildRun.pc = "running"
  /\ buildRun' = [buildRun EXCEPT !.pc = "done", !.code = code, !.success = (code = 0)]
  /\ UNCHANGED <<readResult, notDescriptor>>

\* proc.on('error'): the command could not be spawned, there is no exit code
BuildSpawnError ==
  /\ buildRun.pc = "running"
  /\ buildRun' = [buildRun EXCEPT !.pc = "done", !.success = FALSE]
  /\ UNCHANGED <<readResult, notDescriptor>>

InitDescriptor ==
  /\ readResult = [ok |-> FALSE, error |-> "", info |-> NoProjectInfo] @@
                  [from |-> [lvglVersion |-> Missing, displayWidth |-> 0, displayHeight |-> 0,
                             uiDirExists |-> FALSE, fonts |-> <<>>]]
  /\ buildRun = [NotBuilding EXCEPT !.pc = "start"]

(***************************************************************************)
(* run-docker-command: the captured output and the result.                 *)
(***************************************************************************)

\* A chunk of output is the sequence of its lines
HexId == "64 hex digits"
filters == {"Found orphan containers", "Container docker-build-emscripten-build-run-",
            "Container ID:", "--remove-orphans flag", "cache:INFO"}
Chunks == {<<"make: *** Error 1">>, <<"cache:INFO">>, <<HexId>>,
           <<"Compiling", "Found orphan containers">>}

\* text.includes(filter) for some filter, or the whole text is a container id
shouldFilterDockerMessage(text) ==
  \/ \E i \in DOMAIN text : text[i] \in filters
  \/ text = <<HexId>>

NullCode == -1
CloseCodes == {0, 1, NullCode}
Pending == [resolved |-> FALSE, success |-> FALSE, output |-> <<>>]
NewRun == [pc |-> "none", written |-> <<>>, output |-> <<>>, sent |-> <<>>,
           hasError |-> FALSE, code |-> NullCode, result |-> Pending]
Invocations == 1..2

SpawnDocker(i) ==
  /\ runs[i].pc = "none"
  /\ runs' = [runs EXCEPT ![i].pc = "running"]
  /\ UNCHANGED notOutput

\* stdout.on('data') and stderr.on('data')
OnData(i, text) ==
  /\ runs[i].pc = "running" /\ Len(runs[i].written) < MaxChunks
  /\ runs' = [runs EXCEPT ![i].written = Append(@, text),
                          ![i].output = Append(@, text),
                          ![i].sent = IF shouldFilterDockerMessage(text) THEN @
                                      ELSE Append(@, text)]
  /\ UNCHANGED notOutput

\* on('error'): the first resolve is the promise's value
OnError(i) ==
  /\ runs[i].pc = "running" /\ ~runs[i].hasError
  /\ runs' = [runs EXCEPT ![i].hasError = TRUE,
                          ![i].result = [resolved |-> TRUE, success |-> FALSE,
                                         output |-> runs[i].output]]
  /\ UNCHANGED notOutput

OnCloseMutant(i, code) ==
  /\ runs[i].pc = "running"
  /\ runs' = [runs EXCEPT ![i].pc = "closed", ![i].code = code,
                          ![i].result =
                             IF @.resolved THEN @
                             ELSE [resolved |-> TRUE,
                                   success |-> ~runs[i].hasError /\ code = 0
                                               /\ runs[i].sent = runs[i].output,
                                   output |-> runs[i].output]]
  /\ UNCHANGED notOutput

\* on('close')
OnClose(i, code) ==
  /\ runs[i].pc = "running"
  /\ runs' = [runs EXCEPT ![i].pc = "closed", ![i].code = code,
                          ![i].result =
                             IF @.resolved THEN @
                             ELSE [resolved |-> TRUE,
                                   success |-> ~runs[i].hasError /\ code = 0,
                                   output |-> runs[i].output]]
  /\ UNCHANGED notOutput

InitOutput == runs = [i \in Invocations |-> NewRun]

(***************************************************************************)
(* The recent-projects list.                                               *)
(***************************************************************************)

ProjectFiles == 1..(MaxRecent + 1)
NoFile == 0

\* recentProjects.filter(p => p !== projectPath)
filter(list, projectPath) == SelectSeq(list, LAMBDA p : p # projectPath)

\* .slice(0, n)
slice(list, n) == SubSeq(list, 1, IF Len(list) < n THEN Len(list) ELSE n)

addToRecentProjectsMutant(list, projectPath) ==
  slice(<<projectPath>> \o list, MaxRecent)

addToRecentProjects(list, projectPath) ==
  slice(<<projectPath>> \o filter(list, projectPath), MaxRecent)

removeFromRecentProjects(list, projectPath) == filter(list, projectPath)

\* ipcMain.handle('add-to-recent-projects')
AddToRecentProjects(projectPath) ==
  /\ recentProjects' = addToRecentProjects(recentProjects, projectPath)
  /\ lastAdded' = [path |-> projectPath, removed |-> FALSE,
                   dropped |-> Len(filter(recentProjects, projectPath)) = MaxRecent]
  /\ UNCHANGED notRecent

\* ipcMain.handle('remove-from-recent-projects')
RemoveFromRecentProjects(projectPath) ==
  /\ recentProjects' = removeFromRecentProjects(recentProjects, projectPath)
  /\ lastAdded' = [lastAdded EXCEPT !.removed = @ \/ (lastAdded.path = projectPath)]
  /\ UNCHANGED notRecent

InitRecent ==
  /\ recentProjects = <<>>
  /\ lastAdded = [path |-> NoFile, removed |-> FALSE, dropped |-> FALSE]

(***************************************************************************)
(* The descriptor snapshot from loadProject and runSetup to runBuild, one  *)
(* handler at a time.                                                      *)
(***************************************************************************)

GoodFont == [lvglUseFreeType |-> TRUE, exists |-> TRUE, lvglFreeTypeFilePath |-> "/fonts/a.ttf"]
SavedDescriptors == {d \in Descriptors : /\ d.lvglVersion \in {"8.3", "9.2.2"}
                                         /\ d.displayHeight = 0
                                         /\ d.fonts \in {<<>>, <<GoodFont>>}}
NotBuilt == [command |-> <<>>]

\* the project file is saved
WriteDescriptor(project) ==
  /\ project # snap.disk
  /\ snap' = [snap EXCEPT !.disk = project]
  /\ UNCHANGED notSnapshot

\* loadProject of the project already selected (the first load, or the
\* file-changed reload): state.projectInfo = result and setupComplete is
\* restored from checkBuildStatus, or state.projectInfo = null
LoadProject ==
  /\ LET result == readProjectFile(snap.disk)
     IN snap' = IF result.ok
                THEN [snap EXCEPT !.projectInfo = result.info,
                                  !.setupComplete = (snap.applied # NoProjectInfo)]
                ELSE [snap EXCEPT !.projectInfo = NoProjectInfo]
  /\ UNCHANGED notSnapshot

\* runSetup: the re-read, then setupProject(state.projectInfo)
RunSetup(success) ==
  /\ snap.projectInfo # NoProjectInfo
  /\ LET result == readProjectFile(snap.disk)
     IN snap' = IF ~result.ok THEN snap
                ELSE IF success
                THEN [snap EXCEPT !.projectInfo = result.info, !.setupComplete = TRUE,
                                  !.applied = result.info]
                ELSE [snap EXCEPT !.projectInfo = result.info, !.setupComplete = FALSE]
  /\ UNCHANGED notSnapshot

\* runBuild: buildProject(state.projectInfo)
RunBuild ==
  /\ snap.projectInfo # NoProjectInfo /\ snap.setupComplete
  /\ snap' = [snap EXCEPT !.built = [command |-> buildCommand(snap.projectInfo),
                                     info |-> snap.projectInfo, applied |-> snap.applied]]
  /\ UNCHANGED notSnapshot

InitSnapshot ==
  snap = [disk |-> CHOOSE d \in SavedDescriptors : d.uiDirExists /\ d.fonts = <<>>,
          projectInfo |-> NoProjectInfo, setupComplete |-> FALSE,
          applied |-> NoProjectInfo, built |-> NotBuilt]

InitPort ==
  /\ occupied = {}
  /\ probe = NoPort
  /\ currentPort = NoPort
  /\ skipped = {}
  /\ probeHeld = FALSE
  /\ listener = "none"

InitParts == InitEngine /\ InitSupervisor /\ InitRenderer /\ InitServer /\ InitPort
             /\ InitDescriptor /\ InitOutput /\ InitRecent /\ InitSnapshot

\* The engine, supervisor, server and port specifications: with the runtime up
Init == InitParts /\ docker = TRUE

\* The application as init() leaves it: checkDockerStatus has logged what
\* check-docker returned, whatever it was, and the listeners are set up
InitApp == InitParts /\ docker \in BOOLEAN

NextEngine ==
     \/ \E info \in ProjectInfos : StartSetup(info)
     \/ \E ok \in BOOLEAN : SetupImageBuilt(ok)
     \/ \E ran \in BOOLEAN : SetupProbed(ran)
     \/ \E ok \in BOOLEAN : ContainerCreated(ok)
     \/ \E ok \in BOOLEAN : SetupCloned(ok)
     \/ \E ok \in BOOLEAN : SetupPulled(ok)
     \/ \E ok \in BOOLEAN : SetupSrcPrepared(ok)
     \/ \E ok \in BOOLEAN : SetupCopied(ok)
     \/ \E ok \in BOOLEAN : SetupTouched(ok)
     \/ \E ok \in BOOLEAN : SetupFontsDirMade(ok)
     \/ \E ok \in BOOLEAN : SetupFontDirMade(ok)
     \/ \E ok \in BOOLEAN : SetupFontCopied(ok)
     \/ \E ok \in BOOLEAN : SetupManifestWritten(ok)
     \/ Stopped
     \/ \E info \in ProjectInfos : StartBuild(info)
     \/ \E ok, withData \in BOOLEAN : BuildDone(ok, withData)
     \/ StartCleanBuild
     \/ \E ok \in BOOLEAN : CleanBuildDone(ok)
     \/ StartCleanAll
     \/ \E ok \in BOOLEAN : CleanAllDone(ok)
     \/ \E removed, caught \in BOOLEAN : StartExtract(removed, caught)
     \/ \E ok \in BOOLEAN : ExtractCopied(ok)
     \/ AbortOperation

NextSupervisor ==
     \/ RunDockerCommand
     \/ runDockerCommand
     \/ runDockerCommandString
     \/ \E p \in 1..MaxProcs : ChildClose(p)
     \/ \E p \in 1..MaxProcs : ChildError(p)
     \/ AbortOperation
     \/ \E t \in 1..MaxProcs : GraceTimerFires(t)

NextServer ==
     \/ StartTestServer
     \/ \E bound \in BOOLEAN : PortFound(bound)
     \/ StopTestServer

NextPort ==
     \/ FindAvailablePort
     \/ ProbeListening
     \/ ProbeClosed
     \/ ProbeError
     \/ ServerBinds
     \/ \E p \in Ports : Occupy(p)
     \/ \E p \in Ports : Release(p)

NextOutput ==
     \/ \E i \in Invocations : SpawnDocker(i)
     \/ \E i \in Invocations, text \in Chunks : OnData(i, text)
     \/ \E i \in Invocations : OnError(i)
     \/ \E i \in Invocations, code \in CloseCodes : OnClose(i, code)

NextRecent ==
     \/ \E projectPath \in ProjectFiles : AddToRecentProjects(projectPath)
     \/ \E projectPath \in ProjectFiles : RemoveFromRecentProjects(projectPath)

NextSnapshot ==
     \/ \E project \in SavedDescriptors : WriteDescriptor(project)
     \/ LoadProject
     \/ \E success \in BOOLEAN : RunSetup(success)
     \/ RunBuild

NextDescriptor ==
     \/ \E project \in Descriptors : ReadProjectFile(project)
     \/ BuildProject
     \/ \E code \in ExitCodes : BuildClosed(code)
     \/ BuildSpawnError

Next ==
     \/ \E path \in Projects : SelectProject(path)
     \/ \E path \in Projects \cup {UiFile} : FileChanged(path)
     \/ ClickSetup
     \/ ClickBuild
     \/ ClickRunRebuild
     \/ ClickTest
     \/ ClickStopTest
     \/ ClickRunAll
     \/ ClickRebuild
     \/ ClickDismiss
     \/ \E t \in BagToSet(tasks) : StopTestServerReply(t)
     \/ \E t \in BagToSet(tasks), success \in BOOLEAN : ReadProjectFileReply(t, success)
     \/ \E t \in BagToSet(tasks) : AddToRecentProjectsReply(t)
     \/ \E t \in BagToSet(tasks), success \in BOOLEAN : SetupProjectReply(t, success)
     \/ \E t \in BagToSet(tasks), success \in BOOLEAN : BuildProjectReply(t, success)
     \/ \E t \in BagToSet(tasks), success \in BOOLEAN : CleanBuildReply(t, success)
     \/ \E t \in BagToSet(tasks), success \in BOOLEAN : ExtractBuildReply(t, success)
     \/ \E t \in BagToSet(tasks), success \in BOOLEAN : StartTestServerReply(t, success)

Spec == InitApp /\ [][Next]_vars
SpecEngine == Init /\ [][NextEngine]_vars
SpecSupervisor == Init /\ [][NextSupervisor]_vars
SpecServer == Init /\ [][NextServer]_vars
SpecPort == Init /\ [][NextPort]_vars
SpecDescriptor == Init /\ [][NextDescriptor]_vars
SpecOutput == Init /\ [][NextOutput]_vars
SpecRecent == Init /\ [][NextRecent]_vars
SpecSnapshot == Init /\ [][NextSnapshot]_vars

(***************************************************************************)
(* Properties of the renderer's workflow.                                  *)
(***************************************************************************)

\* the IPC calls that are pipeline operations
PipelineCalls == {"setupProject", "buildProject", "cleanBuild", "extractBuild", "startTestServer"}
InFlight(calls) == {t \in BagToSet(tasks) : t.pc \in calls}
OperationsInFlight ==
  BagCardinality([t \in InFlight(PipelineCalls) |-> CopiesIn(t, tasks)])

\* C1: at most one pipeline operation is in flight, whatever the interleaving
\* of the clicks, the notification's Rebuild button included.
C1_SingleFlight == OperationsInFlight <= 1

\* C2: a Build (or the clean of a Rebuild) is in flight only if Setup is
\* Complete, and a Test is extracting, starting or serving only if Build is
\* Complete.
C2_StageOrder ==
  /\ InFlight({"buildProject", "cleanBuild"}) # {} => state.setupComplete
  /\ (InFlight({"extractBuild", "startTestServer"}) # {} \/ state.testRunning)
        => state.buildComplete

\* C3: a stage that has failed has its downstream stages Pending: with Setup
\* Failed, Build is not Complete and Build and Test are Pending; with Build
\* Failed, Test is Pending.
C3_FailureResetsDownstream ==
  /\ elements.status.setupStatus = "error"
        => /\ ~state.buildComplete
           /\ elements.status.buildStatus = "pending"
           /\ elements.status.testStatus = "pending"
  /\ elements.status.buildStatus = "error"
        => (~state.testRunning /\ elements.status.testStatus = "pending")

\* C4: once a Build has failed, no Test is started until a later Build has
\* succeeded.
TestStarted == \E t \in BagToSet(tasks) : t.fn = "runTest"
C4_NoTestAfterFailedBuild ==
  [][(hist.buildFailed /\ ~TestStarted) => ~TestStarted']_vars

(***************************************************************************)
(* Properties of the build library and of the supervisor.                  *)
(***************************************************************************)

\* C5: every helper container created by Setup or Extract has been stopped
\* when the call returns, on every exit path: between two library calls no
\* helper container is left running.
C5_NoHelperLeftRunning == op = Idle => containers = {}

\* C6: a library call during which abort-operation was invoked does not
\* report success.
C6_AbortedNeverSucceeds == (lastOp.kind # "none" /\ lastOp.abortSeen) => ~lastOp.success

\* C7: a child that is still running when the grace timer of its abort fires
\* has been sent SIGKILL by that timer.
C7_GraceExpiredChildIsKilled == \A p \in graceExpired : procs[p].sigkill

\* C8: once a Setup has completed for the volume and clean-all has not
\* emptied it since, a Setup that is past its marker probe has taken the pull
\* branch and has not run the clone.
C8_CompletedSetupNeverClones ==
  (op.kind = "setup" /\ setupCompleted /\ op.pc \notin {"build_image", "probe"})
     => (op.alreadySetup /\ "clone" \notin op.ran)

\* C9: a failed clone is fatal: the only step after it is the stop of the
\* helper container and the call reports "Git clone failed"; a failed pull is
\* not: the Setup goes on to step 4, and whenever it then fails it is for a
\* later failure, never for the pull.
SetupErrorsWithoutFailedCommand ==
  {"UI directory path is missing", "UI directory not found", "TypeError: path must be a string"}
C9_CloneFatalPullNot ==
  /\ (op.kind = "setup" /\ "clone" \in op.failed)
        => /\ op.pc = "stop" /\ op.error = "Git clone failed"
           /\ op.ran = {"build_image", "probe", "create", "clone", "stop"}
  /\ (lastOp.kind = "setup" /\ "clone" \in lastOp.failed)
        => (~lastOp.success /\ lastOp.error = "Git clone failed")
  /\ (op.kind = "setup" /\ "pull" \in op.failed)
        => /\ "create" \in op.ran
           /\ op.error # "" => (op.failed # {"pull"} \/ op.error \in SetupErrorsWithoutFailedCommand)
  /\ (lastOp.kind = "setup" /\ lastOp.failed = {"pull"} /\ ~lastOp.success)
        => lastOp.error \in SetupErrorsWithoutFailedCommand
C9_Witness ==
  /\ op.kind = "setup" /\ op.pc = "stop" /\ op.error = "" /\ op.failed = {"pull"}
  /\ {"rm_mkdir", "cp", "touch"} \subseteq op.ran
  /\ volume.src = op.info.ui

\* C10: a Setup whose timestamp-touch step failed does not report success.
C10_TouchFailureFailsSetup ==
  (lastOp.kind = "setup" /\ "touch" \in lastOp.failed) => ~lastOp.success

\* C11: after a successful Setup, on the clone or on the pull branch, the
\* in-volume UI-source subtree holds exactly the files of the local UI
\* directory, whatever the volume held before.
C11_SetupReplacesSources ==
  (lastOp.kind = "setup" /\ lastOp.success)
     => (volume.srcDir /\ volume.src = lastOp.ui)

\* C12: Extract reports success exactly when it has copied the three
\* mandatory files: a copy of index.data that fails is skipped, a copy of a
\* mandatory file that fails makes the Extract fail.
C12_ExtractSuccessIffMandatoryCopied ==
  lastOp.kind = "extract" => (lastOp.success <=> Mandatory \subseteq lastOp.copied)
C12_Witness ==
  /\ lastOp.kind = "extract" /\ lastOp.success
  /\ "index.data" \notin volume.build /\ lastOp.copied = Mandatory
  /\ "cp_out" \in lastOp.failed

\* C13: after a successful Extract the output directory holds exactly the
\* files copied in that run, index.data among them only if the volume's build
\* output has it.
C13_OutputIsThisRunsFiles ==
  (lastOp.kind = "extract" /\ lastOp.success)
     => /\ outputDir = lastOp.copied
        /\ "index.data" \in outputDir => "index.data" \in volume.build

\* C14: Run All goes through setup-project, build-project, extract-build and
\* start-test-server in that order; when it stops at a step that failed the
\* badge of that stage shows the failure and the badges of the stages it had
\* completed before still show completed.
RunAllOrder == {<<"stopTest", "setupProject">>, <<"setupProject", "buildProject">>,
                <<"buildProject", "extractBuild">>, <<"extractBuild", "startTestServer">>}
RunAllLeft(t) == t.fn = "runAll" /\ CopiesIn(t, tasks') < CopiesIn(t, tasks)
RunAllStopped(t) == RunAllLeft(t) /\ tasks' = tasks (-) SetToBag({t})
StatusAfterRunAllStep(pc, status) ==
  CASE pc = "setupProject" -> status.setupStatus = "error"
    [] pc = "buildProject" -> status.setupStatus = "completed" /\ status.buildStatus = "error"
    [] pc = "extractBuild" -> /\ status.setupStatus = "completed"
                              /\ status.buildStatus = "completed"
                              /\ status.testStatus = "error"
    [] pc = "startTestServer" -> /\ status.setupStatus = "completed"
                                 /\ status.buildStatus = "completed"
                                 /\ status.testStatus \in {"error", "running"}
    [] OTHER -> FALSE
C14_RunAllStopsAtFirstFailure ==
  [][\A t \in BagToSet(tasks) :
       RunAllLeft(t) =>
         \/ RunAllStopped(t) /\ StatusAfterRunAllStep(t.pc, elements'.status)
         \/ \E u \in BagToSet(tasks') :
              /\ u.fn = "runAll" /\ <<t.pc, u.pc>> \in RunAllOrder
              /\ tasks' = (tasks (-) SetToBag({t})) (+) SetToBag({u})]_vars

\* C15: a file event under the UI source directory raises the stale flag and
\* shows the notification when Setup is complete, changes nothing when the
\* flag is already raised, and does not raise the flag when Setup is not
\* complete.
StaleFlag(st, el) == <<st.fileChangedSinceSetup, el.display.fileChangeNotification>>
ReloadFinished(t) ==
  /\ t.fn = "loadProject" /\ t.reload
  /\ tasks' = tasks (-) SetToBag({t})
C16_FlagSurvivesReload ==
  [][\A t \in BagToSet(tasks) :
       (ReloadFinished(t) /\ state.setupComplete /\ StaleFlag(state, elements) = <<TRUE, TRUE>>)
          => StaleFlag(state', elements') = <<TRUE, TRUE>>]_vars

\* C17: handling a file event, the listener itself and the reload it starts
\* for the descriptor file, leaves setupComplete, buildComplete and
\* testRunning as they were.
StageStatus(st) == <<st.setupComplete, st.buildComplete, st.testRunning>>
ReloadStep == \E t \in BagToSet(tasks) : t.reload /\ CopiesIn(t, tasks') < CopiesIn(t, tasks)
C17_WatchEventKeepsStageStatus ==
  [][((\E path \in Projects \cup {UiFile} : FileChanged(path)) \/ ReloadStep)
        => StageStatus(state') = StageStatus(state)]_vars

\* C18: when the load of a different project has read its descriptor and finishes, setupComplete,
\* buildComplete and testRunning are false and the three badges are pending;
\* and from the selection of a different project until a Setup succeeds, no
\* Build, Rebuild or Test is started.
BuildTestCalls == {"buildProject", "cleanBuild", "extractBuild", "startTestServer"}
BuildsAndTests(ts) == BagCardinality([t \in {u \in BagToSet(ts) : u.pc \in BuildTestCalls}
                                       |-> CopiesIn(t, ts)])
SwitchFinished(t) ==
  /\ t.fn = "loadProject" /\ t.isDifferentProject /\ t.pc # "readProjectFile"
  /\ tasks' = tasks (-) SetToBag({t})
C18_SwitchResetsWorkflow ==
  [][/\ \A t \in BagToSet(tasks) :
          SwitchFinished(t) => /\ StageStatus(state') = <<FALSE, FALSE, FALSE>>
                               /\ elements'.status = AllPending
     /\ hist'.needsSetup => BuildsAndTests(tasks') <= BuildsAndTests(tasks)]_vars

\* C19: while a setup-project or a build-project call is in flight, no test
\* server is live.
C19_NoServerDuringSetupOrBuild ==
  InFlight({"setupProject", "buildProject"}) # {} => ~testServer

\* C20: at most one test-server listener is live at any time, whatever the
\* interleaving of start-test-server and stop-test-server requests.
LiveServers == {s \in 1..MaxServers : servers[s] = "live"}
C20_AtMostOneListener == Cardinality(LiveServers) <= 1

\* C21: the port findAvailablePort returns is free and every port from 3000
\* up to it was found occupied when it was probed (the lowest port that could
\* be bound); and a port that has been returned stays the lease while other
\* processes bind and release ports.
LowestBindable ==
  currentPort # NoPort => /\ listener = "listening" => currentPort \notin occupied
                          /\ skipped = StartPort..(currentPort - 1)
FreeWhenReturned ==
  (currentPort' # currentPort /\ currentPort' # NoPort) => currentPort' \notin occupied
LeaseKept ==
  (currentPort # NoPort /\ occupied' # occupied) => currentPort' = currentPort
C21_LowestPortAndStableLease ==
  []LowestBindable /\ [][FreeWhenReturned]_vars /\ [][LeaseKept]_vars
C21_Witness ==
  /\ currentPort = StartPort + 2 /\ skipped = {StartPort, StartPort + 1}
  /\ StartPort \notin occupied /\ probe = NoPort

\* C22: no Setup, Build, Clean or Extract call is in flight unless the
\* container runtime was found installed and running by the check at startup.
DockerCalls == {"setupProject", "buildProject", "cleanBuild", "extractBuild"}
C22_NoStageWithoutDocker == InFlight(DockerCalls) # {} => docker

\* C23: every build command carries --lvgl with the resolved version and
\* --display-width and --display-height, carries --fonts exactly when the
\* descriptor file declares a FreeType font whose file exists, and the build
\* succeeds exactly when the command exited with code 0.
Honoured(project) ==
  \E i \in DOMAIN project.fonts :
     project.fonts[i].lvglUseFreeType /\ project.fonts[i].exists
Resolved(v) == IF v \in {"8.3", "8.3.0"} THEN "8.4.0"
               ELSE IF v \in {"9.0", "9.0.0"} THEN "9.2.2" ELSE v
ArgNames(command) == {command[i][1] : i \in DOMAIN command}
ArgValues(command, name) == {command[i][2] : i \in {j \in DOMAIN command : command[j][1] = name}}
C23_BuildCommandAndExitCode ==
  /\ buildRun.pc \in {"running", "done"} =>
        LET project == readResult.from
            command == buildRun.command
        IN /\ ArgValues(command, "--lvgl") = {Resolved(project.lvglVersion)}
           /\ ArgValues(command, "--display-width") =
                 {IF project.displayWidth = 0 THEN DefaultWidth ELSE project.displayWidth}
           /\ ArgValues(command, "--display-height") =
                 {IF project.displayHeight = 0 THEN DefaultHeight ELSE project.displayHeight}
           /\ ("--fonts" \in ArgNames(command)) = Honoured(project)
  /\ buildRun.pc = "done" => (buildRun.success = (buildRun.code = 0))
C23_Witness ==
  /\ buildRun.pc = "done" /\ buildRun.success
  /\ readResult.from.lvglVersion = "9.0"
  /\ Len(readResult.from.fonts) = 2 /\ Len(readResult.info.fonts) = 1
  /\ "--fonts" \in ArgNames(buildRun.command)

\* C26: a descriptor is produced only for a version tag that is supported or
\* is in the compatibility table; every other tag is rejected with an error.
C26_UnknownVersionRejected ==
  readResult.ok => readResult.from.lvglVersion \in Supported \cup DOMAIN versionMap

\* C24: a successful clean-all leaves the volume empty and the next Setup
\* clones; a successful clean-build removes the build output and nothing
\* else, and the next Setup of a cloned volume pulls.
SetupDecidedAfter(kind) ==
  op.kind = "setup" /\ op.after = kind /\ op.pc \in {"create", "pull"}
CleanStep(kind) == op.kind = kind /\ op' = Idle /\ lastOp'.success
C24_CleanAllThenClone ==
  /\ [][CleanStep("cleanAll") => volume' = EmptyVolume]_vars
  /\ [](SetupDecidedAfter("cleanAll") => ~op.alreadySetup)
C24_CleanBuildThenPull ==
  /\ [][CleanStep("cleanBuild") => volume' = [volume EXCEPT !.build = {}]]_vars
  /\ []((SetupDecidedAfter("cleanBuild") /\ volume.marker) => op.alreadySetup)
C24_CleanThenSetupBranch == C24_CleanAllThenClone /\ C24_CleanBuildThenPull

\* C25: a command succeeds exactly when it closed with code 0 and had no
\* spawn error; two invocations that end with the same code and the same
\* error status succeed alike whatever they wrote; and everything the child
\* wrote, suppressed or not, is in the captured output (all of it when the
\* result is that of the close, what had been written when the result is
\* that of a spawn error).
Ended(i) == runs[i].pc = "closed"
C25_SuccessFromExitCodeOnly ==
  /\ \A i \in Invocations :
        /\ Ended(i) => /\ runs[i].result.success = (runs[i].code = 0 /\ ~runs[i].hasError)
                       /\ ~runs[i].hasError => runs[i].result.output = runs[i].written
        /\ runs[i].output = runs[i].written
        /\ runs[i].result.resolved =>
              runs[i].result.output = SubSeq(runs[i].written, 1, Len(runs[i].result.output))
  /\ \A i, j \in Invocations :
        (Ended(i) /\ Ended(j) /\ runs[i].code = runs[j].code
                  /\ runs[i].hasError = runs[j].hasError)
        => runs[i].result.success = runs[j].result.success
C25_Witness ==
  /\ Ended(1) /\ Ended(2) /\ runs[1].code = 0 /\ runs[2].code = 0
  /\ runs[1].result.success /\ runs[2].result.success
  /\ runs[1].written = <<<<"cache:INFO">>, <<HexId>>>> /\ runs[1].sent = <<>>
  /\ runs[2].written = <<<<"make: *** Error 1">>>> /\ runs[2].sent = runs[2].written

\* C27: after any adds and removes the recent list holds at most the limit
\* of entries, holds no path twice, and starts with the most recently added
\* path.  As stated (C27_RecentListAsStated) the last part fails once that
\* path has been removed again; it holds for a path not removed since.
NoDuplicates(list) == \A i, j \in DOMAIN list : list[i] = list[j] => i = j
BoundedAndDistinct == Len(recentProjects) <= MaxRecent /\ NoDuplicates(recentProjects)
LastAddedFirst == recentProjects # <<>> /\ Head(recentProjects) = lastAdded.path
C27_RecentListAsStated ==
  /\ BoundedAndDistinct
  /\ lastAdded.path # NoFile => LastAddedFirst
C27_RecentList ==
  /\ BoundedAndDistinct
  /\ (lastAdded.path # NoFile /\ ~lastAdded.removed) => LastAddedFirst
C27_Witness ==
  /\ Len(recentProjects) = MaxRecent
  /\ lastAdded = [path |-> Head(recentProjects), removed |-> FALSE, dropped |-> TRUE]

\* C28: in every state Build complete implies Setup complete, and a running
\* test implies Build complete; Test cannot be started while Setup is not
\* complete.
C28_StagesComplete ==
  /\ state.buildComplete => state.setupComplete
  /\ state.testRunning => state.buildComplete
  /\ ~elements.disabled.btnTest => state.setupComplete

\* C29: whenever no handler is in flight, state.testRunning is true exactly
\* when the main process holds a live test server.
C29_TestRunningIffServer ==
  tasks = EmptyBag => (state.testRunning = testServer)

\* C30: when a Setup succeeds during which a UI source changed after the
\* copy, the stale flag is raised once that Setup has completed.
SetupSucceeds == \E t \in BagToSet(tasks) : SetupProjectReply(t, TRUE)
C30_ChangeDuringSetupNotLost ==
  [][(SetupSucceeds /\ hist.lateChange) => state'.fileChangedSinceSetup]_vars

\* C31: currentDockerProcess refers to a child only while that child is
\* running, and abort-operation answers 'No operation running' whenever no
\* child is running.
NoChildRunning == \A p \in 1..MaxProcs : procs[p].state # "running"
HandleIsRunningChild ==
  currentDockerProcess # NoProc => procs[currentDockerProcess].state = "running"
C31_HandleOnlyWhileRunning ==
  /\ []HandleIsRunningChild
  /\ [][(NoChildRunning /\ abortReply' # abortReply)
          => abortReply' = "No operation running"]_vars

\* C32: once start-test-server has returned success with a port, the server
\* is listening on that port or still binding to it; a server that fails to
\* bind is not reported as a success.
ReturnedSuccess == listener # "none"
C32_SuccessMeansListening ==
  ReturnedSuccess => listener \in {"binding", "listening"}

SwitchedWhileLive(t) ==
  /\ t.fn = "loadProject" /\ t.isDifferentProject /\ t.live
  /\ t \in BagToSet(tasks)
  /\ tasks' = tasks (-) SetToBag({t})
C36_SwitchStopsServer ==
  [][\A t \in BagToSet(tasks) : SwitchedWhileLive(t) => ~testServer']_vars

\* C33: every Build has run with the descriptor snapshot that the last
\* successful Setup applied to the volume.
C33_BuildUsesSetupSnapshot == snap.built # NotBuilt => snap.built.info = snap.built.applied

\* C34: operationRunning is true only while an operation is in flight, so
\* every started operation has reset it when it has finished.
OperationFns == {"runSetup", "runBuild", "runRebuild", "runAll", "runTest", "btnRebuild"}
OperationInFlight == \E t \in BagToSet(tasks) : t.fn \in OperationFns
C34_LockedOnlyInFlight == state.operationRunning => OperationInFlight

\* C37: the lines forwarded to the log listener are, in emission order,
\* exactly the emitted lines that match no filter.
RECURSIVE Lines(_)
Lines(chunks) == IF chunks = <<>> THEN <<>> ELSE Head(chunks) \o Lines(Tail(chunks))
IsNoise(line) == line \in filters \/ line = HexId
Kept(line) == ~IsNoise(line)
C37_OnlyNoiseSuppressed ==
  \A i \in Invocations : Lines(runs[i].sent) = SelectSeq(Lines(runs[i].written), Kept)

\* C38: Dismiss clears the stale flag, hides the notification and changes
\* nothing else (no call started, the three statuses as they were); Rebuild,
\* once its stopTest is over, clears the flag and starts the composite run.
DismissOnlyClears ==
  /\ state' = [state EXCEPT !.fileChangedSinceSetup = FALSE]
  /\ elements' = [elements EXCEPT !.display.fileChangeNotification = FALSE]
  /\ tasks' = tasks
  /\ testServer' = testServer
RebuildChosen ==
  \/ ClickRebuild /\ ~state.testRunning
  \/ \E t \in BagToSet(tasks) : t.fn = "btnRebuild" /\ StopTestServerReply(t)
RebuildStartsRunAll ==
  /\ ~state'.fileChangedSinceSetup
  /\ \E t \in BagToSet(tasks') :
       t.fn = "runAll" /\ CopiesIn(t, tasks') > CopiesIn(t, tasks)
C38_DismissFrame == [][ClickDismiss => DismissOnlyClears]_vars
C38_DismissAndRebuild ==
  [][(ClickDismiss => DismissOnlyClears) /\ (RebuildChosen => RebuildStartsRunAll)]_vars

====
